---- MODULE Spec2Model ----
(***************************************************************************)
(* fastapi-jwt: a token service (jwtsign.py), a contact store on MongoDB   *)
(* (database.py, models.py) and the HTTP routes over both (contacts.py,    *)
(* server.py).                                                             *)
(*                                                                         *)
(* Time is counted in ticks, TicksPerSec ticks to the second, because      *)
(* datetime.utcnow() is finer than the whole seconds a token's exp holds.  *)
(***************************************************************************)
EXTENDS Integers, Sequences, FiniteSets, TLC

\* ---------------------------------------------------------------- bounds
TicksPerSec == 2
MaxJwtClock == 5
MaxClock == 1
MaxTtl == 2
MaxIds == 2

\* ------------------------------------------------------- program constants
ACCESS_TOKEN_EXPIRE_MINUTES == 20
SIGNIN_EXPIRE_MINUTES == 30
HTTP_200_OK == 200
HTTP_201_CREATED == 201
HTTP_401_UNAUTHORIZED == 401
HTTP_404_NOT_FOUND == 404
HTTP_500_INTERNAL_SERVER_ERROR == 500

\* ------------------------------------------------------------ input sets
Names == {"n1", "n2"}

UserEmails == {"u1", "u2"}
Passwords == {"pw"}

\* The bodies of POST /signup: two users, and with them a third account
\* that takes the name of the first and the email of the second.
TwoUsers ==
    { [name |-> "n1", email |-> "u1", password |-> "pw"],
      [name |-> "n2", email |-> "u2", password |-> "pw"] }

InputUsers == TwoUsers \cup {[name |-> "n1", email |-> "u2", password |-> "pw"]}

\* The bodies of POST /contacts/create and PUT /contacts/update: two with
\* nothing in common, and one with the email of the first and the phone of
\* the second.
InputContacts ==
    { [name |-> "A", email |-> "x", phone |-> "1"],
      [name |-> "B", email |-> "y", phone |-> "2"],
      [name |-> "B", email |-> "x", phone |-> "2"] }

\* The requests in flight at once.
Procs == {"r1", "r2"}

\* secrets.token_hex(16) of the first and of a restarted process, and a key
\* that is neither (a token signed by someone else).
FirstSecret == "k1"
RestartSecret == "k2"
ForeignKey == "kx"

\* timedelta(minutes = m) in ticks.
Minutes(m) == m * 60 * TicksPerSec

\* Optional[timedelta]: {} is None, {d} a timedelta of d ticks.
Deltas == {{}} \cup {{d} : d \in 0..MaxTtl}

\* The claim mappings handed to sign_user: a subject, with or without a
\* stale exp entry of the caller's.
ClaimMaps == {[sub |-> s] : s \in Names} \cup {[sub |-> s, exp |-> 0] : s \in Names}

VARIABLES
    now,       \* the wall clock, in ticks
    secret,    \* JWT_SECRET, drawn afresh by every process start
    lastSign,  \* the last sign_user call: its argument before and after, its result
    jwtRes,    \* the last verify_token / decode_token call and its outcome
    users,     \* the users collection
    contacts,  \* the contacts collection, in insertion order
    nextId,    \* uuid4: the number of ids drawn so far (every draw is fresh)
    pend,      \* per request in flight: what a store operation holds between
               \* its lookup and its write
    resp,      \* the outcome of the last store write operation to finish
    sessions,  \* the tokens sign-in has returned, each with the account
               \* (user email) it was issued to
    http,      \* the last HTTP response of a contact route
    creator,   \* history: contact id -> the account whose token created it
    accepted,  \* history: <<owner, id>> of every contact create has stored
    deleted,   \* history: <<owner, id>> of every contact delete has removed
    conn       \* whether the process holds an open connection under
               \* mongoengine's alias "default"

jwtVars == <<now, secret, lastSign, jwtRes>>
storeVars == <<users, contacts, nextId, pend, resp, accepted, deleted>>
httpVars == <<sessions, http, creator>>
vars == <<jwtVars, storeVars, httpVars, conn>>

\* ----------------------------------------------------------- jose.jwt
\* timegm(dt.utctimetuple()): a datetime cut down to whole seconds.
timegm(t) == t \div TicksPerSec

\* dict.update({"exp": v}) on mapping m.
DictUpdateExp(m, v) == [k \in DOMAIN m \cup {"exp"} |-> IF k = "exp" THEN v ELSE m[k]]

\* jwt.encode(claims, key): a datetime exp is stored as whole seconds; the
\* signature is stood for by the key that made it.
jwt_encode(claims, key) ==
    [payload |-> [sub |-> claims.sub, exp |-> timegm(claims.exp)], sig |-> key]

\* jwt.decode(token, key): signature first, then exp against the clock's
\* whole second (exp < now raises ExpiredSignatureError, a JWTError).
jwt_decode(token, key, clock) ==
    IF token.sig # key THEN [err |-> "JWTError", claims |-> {}]
    ELSE IF token.payload.exp < timegm(clock)
         THEN [err |-> "ExpiredSignatureError", claims |-> {}]
         ELSE [err |-> "", claims |-> {token.payload}]

\* --------------------------------------------------------- jwtsign.py
\* sign_user(data, expires_delta) at time clock under key: the token, and
\* the caller's mapping as the call leaves it (to_encode is a copy).
sign_user_nocopy(data, expires_delta, clock, key) ==
    LET expire == IF expires_delta # {} /\ expires_delta # {0}
                  THEN clock + (CHOOSE d \in expires_delta : TRUE)
                  ELSE clock + Minutes(ACCESS_TOKEN_EXPIRE_MINUTES)
        to_encode == DictUpdateExp(data, expire)
    IN [token |-> jwt_encode(to_encode, key), data |-> to_encode]

sign_user(data, expires_delta, clock, key) ==
    LET expire == IF expires_delta # {} /\ expires_delta # {0}
                  THEN clock + (CHOOSE d \in expires_delta : TRUE)
                  ELSE clock + Minutes(ACCESS_TOKEN_EXPIRE_MINUTES)
        to_encode == DictUpdateExp(data, expire)
    IN [token |-> jwt_encode(to_encode, key), data |-> data]

\* verify_token(credentials): the payload, or 401 "Invalid token" on any
\* JWTError.
verify_token(token, key, clock) ==
    LET r == jwt_decode(token, key, clock)
    IN IF r.err = ""
       THEN [status |-> HTTP_200_OK, detail |-> "", ret |-> r.claims]
       ELSE [status |-> HTTP_401_UNAUTHORIZED, detail |-> "Invalid token", ret |-> {}]

\* decode_token(token): the payload, or 401 "Token expired".  Any other
\* JWTError reaches `except jwt.InvalidTokenError`; jose.jwt has no such
\* attribute, so evaluating that clause raises AttributeError, which nothing
\* catches.
decode_token(token, key, clock) ==
    LET r == jwt_decode(token, key, clock)
    IN IF r.err = ""
       THEN [status |-> HTTP_200_OK, detail |-> "", ret |-> r.claims]
       ELSE IF r.err = "ExpiredSignatureError"
            THEN [status |-> HTTP_401_UNAUTHORIZED, detail |-> "Token expired", ret |-> {}]
            ELSE [status |-> HTTP_500_INTERNAL_SERVER_ERROR, detail |-> "AttributeError",
                  ret |-> {}]

\* ----------------------------------------------------------- models.py
\* The unique indexes of Contacts (email, phone; contact_id is the primary
\* key): whether storing doc beside the other documents breaks one.
UniqueIndexOff(coll, doc) == FALSE

UniqueIndexViolated(coll, doc) ==
    \E i \in 1..Len(coll) :
        /\ coll[i].contact_id # doc.contact_id
        /\ coll[i].email = doc.email \/ coll[i].phone = doc.phone

\* The unique index of Users (email).
UserIndexViolated(coll, doc) == \E u \in coll : u.email = doc.email

\* generate_id(): uuid4().hex, a value no earlier draw returned.
generate_id_fixed(drawn) == 1

generate_id(drawn) == drawn + 1

\* ---------------------------------------------------- mongoengine calls
\* What a store function hands back: a returned dict, or a raised
\* HTTPException(status_code, detail).
Return(d) == [raise |-> 0, body |-> d]
Raise(code, detail) == [raise |-> code, body |-> [detail |-> detail]]

\* QuerySet.first(): the first document, if any ({} is None).
First(qs) == IF Len(qs) = 0 THEN {} ELSE {qs[1]}

\* a | b on two query sets: the documents either one selects.
QuerySetOr(a, b) ==
    LET new(c) == \A i \in 1..Len(a) : a[i] # c IN a \o SelectSeq(b, new)

\* Document.save() of a new document: insert_one under the unique indexes.
\* ok is FALSE on NotUniqueError.
DocumentSave(coll, doc) ==
    IF UniqueIndexViolated(coll, doc) \/ \E i \in 1..Len(coll) : coll[i].contact_id = doc.contact_id
    THEN [ok |-> FALSE, coll |-> coll]
    ELSE [ok |-> TRUE, coll |-> Append(coll, doc)]

\* Document.update(set__f = v, ...): update_one on the primary key, no
\* upsert; a document that is gone matches nothing.  ok is FALSE on
\* NotUniqueError.
SetFields(c, sets) == [f \in DOMAIN c |-> IF f \in DOMAIN sets THEN sets[f] ELSE c[f]]

DocumentUpdateUpsert(coll, pk, sets) ==
    LET hit == {i \in 1..Len(coll) : coll[i].contact_id = pk}
        made == [contact_id |-> pk, name |-> sets.name, email |-> sets.email,
                 phone |-> sets.phone, user |-> "", created_at |-> sets.updated_at,
                 updated_at |-> sets.updated_at]
    IN IF hit = {}
       THEN IF UniqueIndexViolated(coll, made) THEN [ok |-> FALSE, coll |-> coll]
            ELSE [ok |-> TRUE, coll |-> Append(coll, made)]
       ELSE IF \E i \in hit : UniqueIndexViolated(coll, SetFields(coll[i], sets))
            THEN [ok |-> FALSE, coll |-> coll]
            ELSE [ok |-> TRUE,
                  coll |-> [i \in 1..Len(coll) |->
                              IF i \in hit THEN SetFields(coll[i], sets) ELSE coll[i]]]

DocumentUpdate(coll, pk, sets) ==
    LET hit == {i \in 1..Len(coll) : coll[i].contact_id = pk}
    IN IF \E i \in hit : UniqueIndexViolated(coll, SetFields(coll[i], sets))
       THEN [ok |-> FALSE, coll |-> coll]
       ELSE [ok |-> TRUE,
             coll |-> [i \in 1..Len(coll) |->
                         IF i \in hit THEN SetFields(coll[i], sets) ELSE coll[i]]]

\* Document.delete(): delete on the primary key.
DocumentDelete(coll, pk) ==
    LET keep(c) == c.contact_id # pk IN SelectSeq(coll, keep)

\* str(n) of a length.
Digit == <<"0", "1", "2", "3", "4", "5", "6", "7", "8", "9">>
RECURSIVE str(_)
str(n) == IF n < 10 THEN Digit[n + 1] ELSE str(n \div 10) \o Digit[(n % 10) + 1]

\* ---------------------------------------------------------- database.py
HasUser(coll, username) == \E u \in coll : u.name = username

DatabaseError == Raise(HTTP_500_INTERNAL_SERVER_ERROR, "Database error")

\* get_db_connection(): connect(db, host, port) names no alias, so it opens
\* the connection the process registers as "default", or keeps the one
\* that is open there already.  The argument is whether one is open
\* before the call, the result whether one is open after it.
get_db_connection(open) == TRUE

\* finally: disconnect() names no alias either: it closes and forgets the
\* connection registered as "default", whichever call opened it.
disconnect(open) == FALSE

\* A store function that runs from its connect to its disconnect in one step.
ConnectedCall(open) == disconnect(get_db_connection(open))

\* The dict a contact is listed as.
Listed(c) ==
    [id |-> c.contact_id, name |-> c.name, email |-> c.email, phone |-> c.phone,
     created_at |-> c.created_at, updated_at |-> c.updated_at]

\* saveUserToDB(userdata): refuses a registered email, else stores the
\* user.  The name is not looked at.  (user_id, a uuid no code reads, is
\* left out of the record.)
saveUserToDB(coll, userdata) ==
    IF \E u \in coll : u.email = userdata.email
    THEN [users |-> coll, out |-> Return([message |-> "Email already registered!"])]
    ELSE LET user == [name |-> userdata.name, email |-> userdata.email,
                      password |-> userdata.password]
         IN IF UserIndexViolated(coll, user)
            THEN [users |-> coll, out |-> DatabaseError]
            ELSE [users |-> coll \cup {user},
                  out |-> Return([message |-> "User registered successfully!"])]

\* getUserFromDB(userdata): a token for the user with this email and
\* password, its subject the user's name.
getUserFromDB(coll, userdata, clock, key) ==
    LET found == {u \in coll : u.email = userdata.email /\ u.password = userdata.password}
    IN IF found # {}
       THEN LET user == CHOOSE u \in found : TRUE
                token == sign_user([sub |-> user.name], {Minutes(SIGNIN_EXPIRE_MINUTES)},
                                   clock, key).token
            IN Return([name |-> user.name, access_token |-> token, token_type |-> "bearer"])
       ELSE Return([message |-> "Incorrect email or password!"])

\* getUserContacts(username): every contact whose user field is username.
getUserContacts_unscoped(coll, username) ==
    LET listing == [i \in 1..Len(coll) |-> Listed(coll[i])]
    IN Return([message |-> "Contacts retrieved successfully!", contacts |-> listing,
               count |-> str(Len(listing))])

getUserContacts(coll, username) ==
    LET mine(c) == c.user = username
        user_contacts == SelectSeq(coll, mine)
        listing == [i \in 1..Len(user_contacts) |-> Listed(user_contacts[i])]
    IN Return([message |-> "Contacts retrieved successfully!", contacts |-> listing,
               count |-> str(Len(listing))])

\* getUserContactByID(username, contact_id): the first contact of that user
\* with that id, as a list of none or one.
getUserContactByID(coll, username, contact_id) ==
    LET hit(c) == c.user = username /\ c.contact_id = contact_id
        contact == First(SelectSeq(coll, hit))
        listing == IF contact = {} THEN <<>> ELSE <<Listed(CHOOSE c \in contact : TRUE)>>
    IN Return([message |-> "Contacts retrieved successfully!", contacts |-> listing,
               count |-> str(Len(listing))])

\* saveUserContacts, up to its write: the user lookup and the duplicate
\* check, which looks only at the contacts of username.
saveUserContacts_check(ucoll, coll, username, userdata) ==
    IF ~HasUser(ucoll, username)
    THEN [go |-> FALSE, out |-> Return([message |-> "User not found!"])]
    ELSE LET sameEmail(c) == c.user = username /\ c.email = userdata.email
             samePhone(c) == c.user = username /\ c.phone = userdata.phone
             existing_contact == QuerySetOr(SelectSeq(coll, sameEmail),
                                            SelectSeq(coll, samePhone))
         IN IF Len(existing_contact) > 0
            THEN [go |-> FALSE,
                  out |-> Return([message |-> "Email or phone number already exists!"])]
            ELSE [go |-> TRUE, out |-> Return([message |-> ""])]

\* saveUserContacts, its write: a new document with a fresh id and both
\* timestamps at the time of construction; NotUniqueError becomes a 500.
saveUserContacts_save(coll, username, userdata, drawn, clock) ==
    LET contact == [contact_id |-> generate_id(drawn), name |-> userdata.name,
                    email |-> userdata.email, phone |-> userdata.phone, user |-> username,
                    created_at |-> clock, updated_at |-> clock]
        r == DocumentSave(coll, contact)
    IN IF r.ok
       THEN [ok |-> TRUE, coll |-> r.coll, id |-> contact.contact_id,
             out |-> Return([message |-> "Contact saved successfully!", contact |-> userdata])]
       ELSE [ok |-> FALSE, coll |-> coll, id |-> contact.contact_id, out |-> DatabaseError]

\* updateUserContacts and deleteUserContacts, up to the write: the user
\* lookup and the lookup of the contact by id and user.
FindUserContact(ucoll, coll, username, contact_id) ==
    IF ~HasUser(ucoll, username)
    THEN [go |-> FALSE, doc |-> {}, out |-> Return([message |-> "User not found!"])]
    ELSE LET hit(c) == c.contact_id = contact_id /\ c.user = username
             contact == First(SelectSeq(coll, hit))
         IN IF contact = {}
            THEN [go |-> FALSE, doc |-> {}, out |-> Return([message |-> "Contact not found!"])]
            ELSE [go |-> TRUE, doc |-> contact, out |-> Return([message |-> ""])]

\* updateUserContacts, its write: contact.update(set__name, set__email,
\* set__phone, set__updated_at = utcnow()) on the contact found, which the
\* update addresses by its primary key.
updateUserContacts_write_stale(coll, pk, userdata, clock) ==
    LET r == DocumentUpdate(coll, pk,
                 [name |-> userdata.name, email |-> userdata.email,
                  phone |-> userdata.phone])
    IN IF r.ok
       THEN [coll |-> r.coll, out |-> Return([message |-> "Contact updated successfully!"])]
       ELSE [coll |-> coll, out |-> DatabaseError]

updateUserContacts_write(coll, pk, userdata, clock) ==
    LET r == DocumentUpdate(coll, pk,
                 [name |-> userdata.name, email |-> userdata.email,
                  phone |-> userdata.phone, updated_at |-> clock])
    IN IF r.ok
       THEN [coll |-> r.coll, out |-> Return([message |-> "Contact updated successfully!"])]
       ELSE [coll |-> coll, out |-> DatabaseError]

\* deleteUserContacts, its write: contact.delete() on the contact found.
deleteUserContacts_write(coll, pk) ==
    [coll |-> DocumentDelete(coll, pk),
     out |-> Return([message |-> "Contact deleted successfully!"])]

\* The three write functions run from entry to exit with nothing between
\* the lookup and the write.
saveUserContacts(ucoll, coll, username, userdata, drawn, clock) ==
    LET l == saveUserContacts_check(ucoll, coll, username, userdata)
    IN IF l.go THEN saveUserContacts_save(coll, username, userdata, drawn, clock)
       ELSE [ok |-> FALSE, coll |-> coll, id |-> 0, out |-> l.out]

updateUserContacts(ucoll, coll, username, contact_id, userdata, clock) ==
    LET l == FindUserContact(ucoll, coll, username, contact_id)
    IN IF l.go
       THEN updateUserContacts_write(coll, (CHOOSE c \in l.doc : TRUE).contact_id,
                                     userdata, clock)
       ELSE [coll |-> coll, out |-> l.out]

deleteUserContacts(ucoll, coll, username, contact_id) ==
    LET l == FindUserContact(ucoll, coll, username, contact_id)
    IN IF l.go THEN deleteUserContacts_write(coll, (CHOOSE c \in l.doc : TRUE).contact_id)
       ELSE [coll |-> coll, out |-> l.out]

\* ------------------------------------------------------------ the state
Idle == [op |-> "idle"]

NoToken == [payload |-> [sub |-> "", exp |-> 0], sig |-> ForeignKey]

\* Whether the instant a token's exp names lies before the clock.
ExpiryPassed(token, clock) == token.payload.exp * TicksPerSec < clock

Init ==
    /\ now = 0
    /\ secret = FirstSecret
    /\ lastSign = [in |-> [sub |-> ""], out |-> [sub |-> ""], token |-> NoToken,
                   at |-> -1, key |-> ForeignKey]
    /\ jwtRes = [fn |-> "none", signed |-> FALSE, passed |-> FALSE, fresh |-> FALSE,
                 subject |-> "", res |-> [status |-> 0, detail |-> "", ret |-> {}]]
    /\ users = {}
    /\ contacts = <<>>
    /\ nextId = 0
    /\ pend = [p \in Procs |-> Idle]
    /\ resp = [op |-> "none", out |-> Return([message |-> ""])]
    /\ sessions = {}
    /\ http = [route |-> "none", status |-> 0, body |-> [detail |-> ""], acct |-> "",
               touched |-> {}, signed |-> FALSE, passed |-> FALSE]
    /\ creator = {}
    /\ accepted = {}
    /\ deleted = {}
    /\ conn = FALSE

\* Time passes.
Tick(limit) ==
    /\ now < limit
    /\ now' = now + 1
    /\ UNCHANGED <<secret, lastSign, jwtRes, storeVars, httpVars, conn>>

\* The process is started again: a new JWT_SECRET, no request in flight, no
\* connection open; the database keeps what it holds.
Restart ==
    /\ secret = FirstSecret
    /\ secret' = RestartSecret
    /\ pend' = [p \in Procs |-> Idle]
    /\ conn' = FALSE
    /\ UNCHANGED <<now, lastSign, jwtRes, users, contacts, nextId, resp, accepted, deleted,
                   httpVars>>

\* ------------------------------------------------- token service calls
SignUserCall ==
    \E data \in ClaimMaps, expires_delta \in Deltas :
        LET r == sign_user(data, expires_delta, now, secret)
        IN /\ lastSign' = [in |-> data, out |-> r.data, token |-> r.token, at |-> now,
                           key |-> secret]
           /\ UNCHANGED <<now, secret, jwtRes, storeVars, httpVars, conn>>

\* The tokens a caller of the token service holds: the one sign_user gave
\* last, and that token signed by someone else.
HeldTokens ==
    IF lastSign.at < 0 THEN {}
    ELSE {lastSign.token, [lastSign.token EXCEPT !.sig = ForeignKey]}

JwtCall(fn, token, res) ==
    /\ jwtRes' = [fn |-> fn, signed |-> token.sig = secret,
                  passed |-> ExpiryPassed(token, now),
                  fresh |-> token = lastSign.token /\ now = lastSign.at /\ secret = lastSign.key,
                  subject |-> lastSign.in.sub, res |-> res]
    /\ UNCHANGED <<now, secret, lastSign, storeVars, httpVars, conn>>

VerifyCall == \E t \in HeldTokens : JwtCall("verify_token", t, verify_token(t, secret, now))

DecodeCall == \E t \in HeldTokens : JwtCall("decode_token", t, decode_token(t, secret, now))

\* ------------------------------------------------------------ server.py
\* POST /signup, with a body among bodies.
sign_up(bodies) ==
    \E userdata \in bodies :
        LET r == saveUserToDB(users, userdata)
        IN /\ users' = r.users
           /\ conn' = ConnectedCall(conn)
           /\ UNCHANGED <<jwtVars, contacts, nextId, pend, resp, accepted, deleted, httpVars>>

\* POST /signin: the token returned is kept by the client that signed in.
sign_in ==
    \E email \in UserEmails, password \in Passwords \cup {"bad"} :
        LET r == getUserFromDB(users, [email |-> email, password |-> password], now, secret)
        IN /\ sessions' = IF "access_token" \in DOMAIN r.body
                          THEN sessions \cup {[token |-> r.body.access_token, acct |-> email]}
                          ELSE sessions
           /\ conn' = ConnectedCall(conn)
           /\ UNCHANGED <<jwtVars, storeVars, http, creator>>

\* ---------------------------------------------------------- contacts.py
\* The bearer tokens a request can carry, each with the account it was
\* issued to ("" when sign-in issued it to nobody): the sign-in tokens, the
\* last token of sign_user, and tokens signed by someone else.
Presented ==
    {[token |-> s.token, acct |-> s.acct] : s \in sessions}
    \cup {[token |-> t, acct |-> ""] : t \in HeldTokens}
    \cup {[token |-> [payload |-> [sub |-> n, exp |-> timegm(Minutes(SIGNIN_EXPIRE_MINUTES))],
                      sig |-> ForeignKey],
           acct |-> ""] : n \in Names}

Respond(route, pt, status, body, touched) ==
    http' = [route |-> route, status |-> status, body |-> body, acct |-> pt.acct,
             touched |-> touched, signed |-> pt.token.sig = secret,
             passed |-> ExpiryPassed(pt.token, now)]

\* Depends(verify_token) failing: the route's function is not entered.
Unauthorized(route, pt, v) ==
    /\ Respond(route, pt, v.status, [detail |-> v.detail], {})
    /\ UNCHANGED <<jwtVars, storeVars, sessions, creator, conn>>

\* The status and body of a route that returns what the store function
\* returned, or passes on the HTTPException it raised.
StatusOf(out, success) == IF out.raise # 0 THEN out.raise ELSE success

Sub(v) == (CHOOSE c \in v.ret : TRUE).sub

\* POST /contacts/create.
save_contact_with(pt, contact) ==
    LET v == verify_token(pt.token, secret, now)
    IN IF v.status # HTTP_200_OK THEN Unauthorized("save_contact", pt, v)
       ELSE LET user_id == Sub(v)
                r == saveUserContacts(users, contacts, user_id, contact, nextId, now)
            IN /\ nextId < MaxIds
               /\ contacts' = r.coll
               /\ nextId' = IF r.ok THEN nextId + 1 ELSE nextId
               /\ accepted' = IF r.ok THEN accepted \cup {<<user_id, r.id>>} ELSE accepted
               /\ creator' = IF r.ok THEN creator \cup {<<r.id, pt.acct>>} ELSE creator
               /\ Respond("save_contact", pt, StatusOf(r.out, HTTP_201_CREATED),
                          r.out.body, {})
               /\ conn' = ConnectedCall(conn)
               /\ UNCHANGED <<jwtVars, users, pend, resp, deleted, sessions>>

save_contact == \E pt \in Presented, contact \in InputContacts : save_contact_with(pt, contact)

ListedIds(out) ==
    IF out.raise # 0 THEN {} ELSE {out.body.contacts[i].id : i \in 1..Len(out.body.contacts)}

\* GET /contacts/ and GET /contacts/{contact_id}: 404 when what the store
\* function returned is falsy; a dict is falsy when it has no keys.
ReadRoute(route, pt, out, detail) ==
    /\ IF out.raise # 0 THEN Respond(route, pt, out.raise, out.body, {})
       ELSE IF DOMAIN out.body = {}
            THEN Respond(route, pt, HTTP_404_NOT_FOUND, [detail |-> detail], {})
            ELSE Respond(route, pt, HTTP_200_OK, out.body, ListedIds(out))
    /\ conn' = ConnectedCall(conn)
    /\ UNCHANGED <<jwtVars, storeVars, sessions, creator>>

get_contacts ==
    \E pt \in Presented :
        LET v == verify_token(pt.token, secret, now)
        IN IF v.status # HTTP_200_OK THEN Unauthorized("get_contacts", pt, v)
           ELSE ReadRoute("get_contacts", pt, getUserContacts(contacts, Sub(v)),
                          "No contacts found")

get_contact_by_id ==
    \E pt \in Presented, contact_id \in 1..MaxIds :
        LET v == verify_token(pt.token, secret, now)
        IN IF v.status # HTTP_200_OK THEN Unauthorized("get_contact_by_id", pt, v)
           ELSE ReadRoute("get_contact_by_id", pt,
                          getUserContactByID(contacts, Sub(v), contact_id),
                          "Contact not found")

\* PUT /contacts/update/{contact_id}.
update_contact ==
    \E pt \in Presented, contact_id \in 1..MaxIds, contact \in InputContacts :
        LET v == verify_token(pt.token, secret, now)
        IN IF v.status # HTTP_200_OK THEN Unauthorized("update_contact", pt, v)
           ELSE LET r == updateUserContacts(users, contacts, Sub(v), contact_id, contact, now)
                IN /\ contacts' = r.coll
                   /\ Respond("update_contact", pt, StatusOf(r.out, HTTP_200_OK), r.out.body,
                              IF r.coll # contacts THEN {contact_id} ELSE {})
                   /\ conn' = ConnectedCall(conn)
                   /\ UNCHANGED <<jwtVars, users, nextId, pend, resp, accepted, deleted,
                                  sessions, creator>>

\* DELETE /contacts/delete/{contact_id}.
delete_contact ==
    \E pt \in Presented, contact_id \in 1..MaxIds :
        LET v == verify_token(pt.token, secret, now)
        IN IF v.status # HTTP_200_OK THEN Unauthorized("delete_contact", pt, v)
           ELSE LET r == deleteUserContacts(users, contacts, Sub(v), contact_id)
                    gone == r.coll # contacts
                IN /\ contacts' = r.coll
                   /\ deleted' = IF gone THEN deleted \cup {<<Sub(v), contact_id>>} ELSE deleted
                   /\ Respond("delete_contact", pt, StatusOf(r.out, HTTP_200_OK), r.out.body,
                              IF gone THEN {contact_id} ELSE {})
                   /\ conn' = ConnectedCall(conn)
                   /\ UNCHANGED <<jwtVars, users, nextId, pend, resp, accepted, sessions,
                                  creator>>

\* ------------------------------------- database.py, requests interleaved
\* A store write function runs in two steps, its lookups and its write, and
\* the steps of other requests may fall between them.  (The user lookup and
\* the contact lookup are one step: users are never removed, so nothing a
\* concurrent request does between the two changes either answer.)  The
\* first step begins with get_db_connection(); the step in which the
\* function returns or raises ends with the disconnect() of its finally.
Finish(p, op, out) ==
    /\ resp' = [op |-> op, out |-> out]
    /\ pend' = [pend EXCEPT ![p] = Idle]

saveUserContacts_begin(p, username, userdata) ==
    /\ pend[p] = Idle
    /\ nextId < MaxIds
    /\ LET l == saveUserContacts_check(users, contacts, username, userdata)
       IN IF l.go
          THEN /\ pend' = [pend EXCEPT ![p] = [op |-> "save", username |-> username,
                                                userdata |-> userdata]]
               /\ UNCHANGED resp
               /\ conn' = get_db_connection(conn)
          ELSE Finish(p, "save", l.out) /\ conn' = ConnectedCall(conn)
    /\ UNCHANGED <<jwtVars, users, contacts, nextId, accepted, deleted, httpVars>>

saveUserContacts_end(p) ==
    /\ pend[p].op = "save"
    /\ nextId < MaxIds
    /\ LET r == saveUserContacts_save(contacts, pend[p].username, pend[p].userdata,
                                      nextId, now)
       IN /\ contacts' = r.coll
          /\ nextId' = IF r.ok THEN nextId + 1 ELSE nextId
          /\ accepted' = IF r.ok THEN accepted \cup {<<pend[p].username, r.id>>}
                         ELSE accepted
          /\ Finish(p, "save", r.out)
          /\ conn' = disconnect(conn)
    /\ UNCHANGED <<jwtVars, users, deleted, httpVars>>

updateUserContacts_begin(p, username, contact_id, userdata) ==
    /\ pend[p] = Idle
    /\ LET l == FindUserContact(users, contacts, username, contact_id)
       IN IF l.go
          THEN /\ pend' = [pend EXCEPT ![p] = [op |-> "update", username |-> username,
                                                contact_id |-> contact_id,
                                                userdata |-> userdata]]
               /\ UNCHANGED resp
               /\ conn' = get_db_connection(conn)
          ELSE Finish(p, "update", l.out) /\ conn' = ConnectedCall(conn)
    /\ UNCHANGED <<jwtVars, users, contacts, nextId, accepted, deleted, httpVars>>

updateUserContacts_end(p) ==
    /\ pend[p].op = "update"
    /\ LET r == updateUserContacts_write(contacts, pend[p].contact_id, pend[p].userdata, now)
       IN /\ contacts' = r.coll
          /\ Finish(p, "update", r.out)
          /\ conn' = disconnect(conn)
    /\ UNCHANGED <<jwtVars, users, nextId, accepted, deleted, httpVars>>

deleteUserContacts_begin(p, username, contact_id) ==
    /\ pend[p] = Idle
    /\ LET l == FindUserContact(users, contacts, username, contact_id)
       IN IF l.go
          THEN /\ pend' = [pend EXCEPT ![p] = [op |-> "delete", username |-> username,
                                                contact_id |-> contact_id]]
               /\ UNCHANGED resp
               /\ conn' = get_db_connection(conn)
          ELSE Finish(p, "delete", l.out) /\ conn' = ConnectedCall(conn)
    /\ UNCHANGED <<jwtVars, users, contacts, nextId, accepted, deleted, httpVars>>

deleteUserContacts_end(p) ==
    /\ pend[p].op = "delete"
    /\ LET r == deleteUserContacts_write(contacts, pend[p].contact_id)
       IN /\ contacts' = r.coll
          /\ deleted' = deleted \cup {<<pend[p].username, pend[p].contact_id>>}
          /\ Finish(p, "delete", r.out)
          /\ conn' = disconnect(conn)
    /\ UNCHANGED <<jwtVars, users, nextId, accepted, httpVars>>

\* ------------------------------------------------------- specifications
SaveStep(P) ==
    \E p \in P :
        \/ \E username \in Names, userdata \in InputContacts :
               saveUserContacts_begin(p, username, userdata)
        \/ saveUserContacts_end(p)

UpdateStep(P) ==
    \E p \in P :
        \/ \E username \in Names, contact_id \in 1..MaxIds, userdata \in InputContacts :
               updateUserContacts_begin(p, username, contact_id, userdata)
        \/ updateUserContacts_end(p)

DeleteStep(P) ==
    \E p \in P :
        \/ \E username \in Names, contact_id \in 1..MaxIds :
               deleteUserContacts_begin(p, username, contact_id)
        \/ deleteUserContacts_end(p)

\* The store functions called concurrently, as the requests in flight call
\* them.
Next == sign_up(TwoUsers) \/ SaveStep(Procs) \/ UpdateStep(Procs) \/ DeleteStep(Procs)

Spec == Init /\ [][Next]_vars

\* The store functions called one at a time, while time passes.
NextSeq ==
    \/ sign_up(TwoUsers)
    \/ Tick(MaxClock)
    \/ SaveStep({"r1"})
    \/ UpdateStep({"r1"})
    \/ DeleteStep({"r1"})

SpecSeq == Init /\ [][NextSeq]_vars

\* The HTTP routes, one request at a time.
NextHttp ==
    \/ sign_up(InputUsers)
    \/ sign_in
    \/ save_contact
    \/ get_contacts
    \/ get_contact_by_id
    \/ update_contact
    \/ delete_contact

SpecHttp == Init /\ [][NextHttp]_vars

\* The token service over time, and a route behind it.
NextJwt == SignUserCall \/ VerifyCall \/ DecodeCall \/ Tick(MaxJwtClock) \/ Restart \/ get_contacts

SpecJwt == Init /\ [][NextJwt]_vars

\* ------------------------------------------------------------- properties
Ids(coll) == {coll[i].contact_id : i \in 1..Len(coll)}

Message(text) == Return([message |-> text])

\* Some contact, of whatever owner, holds this email or this phone.
HeldAnywhere(coll, userdata) ==
    \E i \in 1..Len(coll) : coll[i].email = userdata.email \/ coll[i].phone = userdata.phone

\* C1: a list, getById, update or delete request made with a token issued
\* to one account never returns, changes or removes a contact that was
\* created with a token issued to another account.
C1_OnlyOwnAccountsContacts ==
    \A id \in http.touched : \A made \in creator : made[1] = id => made[2] = http.acct

\* C2: a create for an existing owner, when a contact of any owner already
\* has the same email or the same phone, returns the message "Email or phone
\* number already exists!" as data, with no internal error, and leaves the
\* contacts unchanged.
C2_DuplicateAnywhereFailsSoftly ==
    [][\A pt \in Presented, contact \in InputContacts :
          ( /\ save_contact_with(pt, contact)
            /\ verify_token(pt.token, secret, now).status = HTTP_200_OK
            /\ HasUser(users, pt.token.payload.sub)
            /\ HeldAnywhere(contacts, contact) )
          => /\ http'.status = HTTP_201_CREATED
             /\ http'.body = [message |-> "Email or phone number already exists!"]
             /\ contacts' = contacts]_vars

\* C3: in every reachable state, whatever the interleaving of create, update
\* and delete, no two distinct contacts share an email and no two share a
\* phone, whoever owns them.
C3_EmailAndPhoneUnique ==
    \A i, j \in 1..Len(contacts) :
        i # j => contacts[i].email # contacts[j].email /\ contacts[i].phone # contacts[j].phone

\* C3 witness: two contacts are stored and the unique index has just turned
\* an update down.
C3_Witness ==
    /\ Len(contacts) = 2
    /\ resp.op = "update"
    /\ resp.out = DatabaseError

\* C4: a correctly signed token whose embedded expiry has passed is never
\* accepted: verify_token and decode_token answer 401 without the claims and
\* no contact route runs for it; and until its expiry it is accepted.
C4_ExpiredNeverAccepted ==
    /\ (jwtRes.fn # "none" /\ jwtRes.signed /\ jwtRes.passed)
           => jwtRes.res.status = HTTP_401_UNAUTHORIZED /\ jwtRes.res.ret = {}
    /\ (jwtRes.fn # "none" /\ jwtRes.signed /\ ~jwtRes.passed)
           => jwtRes.res.status = HTTP_200_OK /\ jwtRes.res.ret # {}
    /\ (http.route # "none" /\ http.signed /\ http.passed)
           => http.status = HTTP_401_UNAUTHORIZED

\* C5: a token verified or decoded at the moment sign_user issued it, in the
\* same process, yields claims whose sub is the subject supplied; and
\* sign_user leaves the caller's mapping as it was.
C5_IssueThenVerify ==
    /\ lastSign.out = lastSign.in
    /\ jwtRes.fresh =>
           /\ jwtRes.res.status = HTTP_200_OK
           /\ jwtRes.res.ret # {}
           /\ \A c \in jwtRes.res.ret : c.sub = jwtRes.subject

\* C5 witness: a token of a short ttl, issued from a mapping that carried an
\* exp of its own, has been decoded at once.
C5_Witness ==
    /\ jwtRes.fresh
    /\ jwtRes.fn = "decode_token"
    /\ now = lastSign.at
    /\ "exp" \in DOMAIN lastSign.in
    /\ lastSign.token.payload.exp <= MaxJwtClock

\* C6: a read whose store lookup matches no contact is answered 404, never
\* 200 with an empty collection.
C6_EmptyReadIs404 ==
    (http.route \in {"get_contacts", "get_contact_by_id"} /\ http.status = HTTP_200_OK)
        => Len(http.body.contacts) > 0

\* Contact i of the collection is the one a pending or requested update or
\* delete addresses.
Addressed(coll, username, contact_id) ==
    {i \in 1..Len(coll) : coll[i].contact_id = contact_id /\ coll[i].user = username}

\* C7: an update for an existing owner and an id that matches no contact of
\* that owner returns "Contact not found!" and leaves the collection as it
\* was, in every state the store reaches; and no step of an update adds a
\* contact, also when the contact is deleted between the update's lookup
\* and its write.
C7_UpdateNeverInserts ==
    /\ [](\A username \in {u \in Names : HasUser(users, u)} :
              \A contact_id \in {c \in 1..MaxIds : Addressed(contacts, username, c) = {}} :
                  \A userdata \in InputContacts :
                      updateUserContacts(users, contacts, username, contact_id, userdata, now)
                          = [coll |-> contacts, out |-> Message("Contact not found!")])
    /\ [][\A p \in Procs :
              updateUserContacts_end(p)
              => Ids(contacts') \subseteq Ids(contacts) /\ Len(contacts') <= Len(contacts)]_vars

\* C7 witness: an update is the last operation to have finished, with its
\* success message, and no contact is stored: a delete removed the contact
\* after the update had found it.
C7_Witness ==
    /\ resp.op = "update"
    /\ resp.out = Message("Contact updated successfully!")
    /\ contacts = <<>>
    /\ deleted # {}

\* C8: once a delete of (owner, id) has succeeded, getById(owner, id)
\* returns no contact and count "0", and list(owner) does not hold the
\* contact, whatever creates and updates follow.
C8_DeletedStaysGone ==
    \A d \in deleted :
        /\ getUserContactByID(contacts, d[1], d[2])
             = Return([message |-> "Contacts retrieved successfully!", contacts |-> <<>>,
                       count |-> "0"])
        /\ d[2] \notin ListedIds(getUserContacts(contacts, d[1]))

\* C8 witness: after a delete, a later create has stored a contact under
\* the same owner and an update of it has succeeded.
C8_Witness ==
    /\ \E d \in deleted : \E i \in 1..Len(contacts) :
           /\ contacts[i].contact_id > d[2]
           /\ contacts[i].user = d[1]
           /\ contacts[i].name = "B"
    /\ Len(contacts) = 1
    /\ accepted = {<<"n1", 1>>, <<"n1", 2>>}
    /\ resp.op = "update"
    /\ resp.out = Message("Contact updated successfully!")

\* Some other contact than the one with this id holds this email or phone.
HeldByAnother(coll, contact_id, userdata) ==
    \E i \in 1..Len(coll) :
        /\ coll[i].contact_id # contact_id
        /\ coll[i].email = userdata.email \/ coll[i].phone = userdata.phone

\* What an update must leave of contact c.
Overwritten(c, userdata, clock) ==
    [contact_id |-> c.contact_id, user |-> c.user, created_at |-> c.created_at,
     name |-> userdata.name, email |-> userdata.email, phone |-> userdata.phone,
     updated_at |-> clock]

\* C9 as first stated: an update of an existing contact of an existing owner
\* always overwrites name, email and phone, sets updated_at to now, keeps
\* created_at, id and owner, and returns "Contact updated successfully!",
\* also when another contact holds the new email or phone.
C9_UpdateAlwaysSucceeds ==
    [][\A p \in Procs :
          updateUserContacts_end(p) =>
              \A i \in Addressed(contacts, pend[p].username, pend[p].contact_id) :
                  /\ resp'.out = Message("Contact updated successfully!")
                  /\ Len(contacts') = Len(contacts)
                  /\ contacts'[i] = Overwritten(contacts[i], pend[p].userdata, now)]_vars

\* C9 as amended: the update overwrites and succeeds when no other contact
\* holds the new email or phone; when one does, the unique index refuses the
\* write, the update ends in the internal error and no contact changes.
C9_UpdateSucceedsUnlessHeld ==
    [][\A p \in Procs :
          updateUserContacts_end(p) =>
              \A i \in Addressed(contacts, pend[p].username, pend[p].contact_id) :
                  IF HeldByAnother(contacts, pend[p].contact_id, pend[p].userdata)
                  THEN /\ resp'.out = DatabaseError
                       /\ contacts' = contacts
                  ELSE /\ resp'.out = Message("Contact updated successfully!")
                       /\ contacts' = [contacts EXCEPT
                                          ![i] = Overwritten(contacts[i], pend[p].userdata, now)]]_vars

\* C9 witness: an update has succeeded on a contact created at an earlier
\* time, and the contact carries the new time.
C9_Witness ==
    /\ resp.op = "update"
    /\ resp.out = Message("Contact updated successfully!")
    /\ \E i \in 1..Len(contacts) :
           /\ contacts[i].created_at < contacts[i].updated_at
           /\ contacts[i].updated_at = now

\* The contacts stored with owner.
StoredWith(coll, owner) == {i \in 1..Len(coll) : coll[i].user = owner}

\* C10: list(owner) returns exactly the contacts stored with that owner,
\* each once, with their number as count; a create by an existing owner
\* whose email and phone no stored contact holds is accepted; and every
\* accepted contact that was not deleted is in its owner's listing.
C10_ListingIsTheOwnersContacts ==
    /\ [](\A owner \in Names :
            LET out == getUserContacts(contacts, owner)
                mine == StoredWith(contacts, owner)
            IN /\ out.raise = 0
               /\ Len(out.body.contacts) = Cardinality(mine)
               /\ {out.body.contacts[k] : k \in 1..Len(out.body.contacts)}
                    = {Listed(contacts[i]) : i \in mine}
               /\ out.body.count = Digit[Cardinality(mine) + 1]
               /\ \A a \in accepted \ deleted :
                      a[1] = owner => a[2] \in ListedIds(out))
    /\ [][\A p \in Procs :
             /\ \A username \in Names, userdata \in InputContacts :
                    ( /\ saveUserContacts_begin(p, username, userdata)
                      /\ HasUser(users, username)
                      /\ ~HeldAnywhere(contacts, userdata) )
                    => pend'[p] = [op |-> "save", username |-> username, userdata |-> userdata]
             /\ ( /\ saveUserContacts_end(p)
                  /\ ~HeldAnywhere(contacts, pend[p].userdata) )
                    => /\ resp'.out = Return([message |-> "Contact saved successfully!",
                                              contact |-> pend[p].userdata])
                       /\ \E a \in accepted' \ accepted :
                              /\ a[1] = pend[p].username
                              /\ a[2] \in ListedIds(getUserContacts(contacts', a[1]))]_vars

\* C10 witness: one owner has created two contacts and the listing holds
\* both.
C10_Witness ==
    \E owner \in Names :
        /\ Len(getUserContacts(contacts, owner).body.contacts) = 2
        /\ Cardinality({a \in accepted : a[1] = owner}) = 2

\* C11: every store operation releases the connection on every exit path,
\* so none is open when no request is in flight; and while a request is
\* between its connect and its disconnect the connection it uses is open:
\* no other operation's disconnect has closed it.
C11_OwnConnectionStaysOpen ==
    /\ (\A p \in Procs : pend[p] = Idle) => ~conn
    /\ \A p \in Procs : pend[p] # Idle => conn

====
